---- MODULE Spec2Model ----
(***************************************************************************)
(* Model of machine_cli.py: the instance resolver (resolve_instances), the *)
(* remote command dispatcher (send_ssm_command) and the parallel execution *)
(* engine (run_parallel).                                                  *)
(*                                                                         *)
(* Spec        : one call of run_parallel; every worker runs               *)
(*               send_ssm_command step by step (send, sleep, poll,         *)
(*               backoff), the calling thread submits, collects and logs.  *)
(* FairSpec    : Spec with weak fairness of every step (threads that can   *)
(*               run do run, blocking calls return).                       *)
(* SpecResolve : one call of resolve_instances, one token per step.        *)
(* SpecPatch   : the script of action_append_after_match run on an         *)
(*               instance, step by step (the command string is built, the  *)
(*               shell splits it, the redirection opens the temporary      *)
(*               file, awk reads record by record, mv renames), on files   *)
(*               of up to MaxLines lines, up to MaxRuns times.             *)
(* SpecQuote   : the same steps on one file, for patterns and new lines    *)
(*               that are any text of up to MaxText characters among       *)
(*               quotes, blanks and shell metacharacters.                  *)
(*                                                                         *)
(* Taken as given: max_workers >= 1, timeout_seconds >= 0, session.client  *)
(* returns a client, and the boto3 calls either return or raise. The       *)
(* instance runs the command with a POSIX shell and a POSIX awk.           *)
(***************************************************************************)
EXTENDS Integers, Sequences, FiniteSets, TLC

\* ------------------------------------------------------------------ bounds
MaxInstances == 2     \* longest instance_ids list given to run_parallel
MaxConcurrency == 2   \* largest max_workers
MaxTimeout == 6       \* largest timeout_seconds of a lone dispatch
MaxTokens == 3        \* longest raw_list given to resolve_instances
BatchTimeout == 2     \* timeout_seconds of the dispatches of a batch (the code's
MaxLines == 3         \* most lines of a file the append is applied to
MaxText == 2          \* longest pattern or new line the quoting is explored with
MaxRuns == 2          \* most times the same append is applied to a file
                      \* default of 300, scaled down)

\* ------------------------------------------------- constants of the program
POLL_INTERVAL == 2    \* time.sleep(2) at the head of every poll iteration
BACKOFF == 1          \* time.sleep(1) after InvocationDoesNotExist

\* ------------------------------------------------------------- value sets
IdPool == <<"i-1", "i-2", "i-3", "i-4">>
InstanceIds == {IdPool[k] : k \in 1 .. Len(IdPool)}

TerminalStatuses == {"Success", "Failed", "TimedOut", "Cancelled"}
PendingStatuses == {"Pending", "InProgress"}
RemoteStatuses == TerminalStatuses \cup PendingStatuses

SendErrors == {"AccessDenied"}
SendReplies == {"CommandId"} \cup SendErrors

NoReply == [kind |-> "none", status |-> "", stdout |-> "", stderr |-> ""]
NotVisible == [kind |-> "InvocationDoesNotExist", status |-> "", stdout |-> "", stderr |-> ""]
PollException == [kind |-> "Exception", status |-> "", stdout |-> "", stderr |-> ""]
\* StandardOutputContent / StandardErrorContent of an invocation
Outputs == {<<"", "">>, <<"out", "">>, <<"", "err">>}
Invocations ==
    {[kind |-> "inv", status |-> s, stdout |-> o[1], stderr |-> o[2]] :
        s \in RemoteStatuses, o \in Outputs}
\* what one ssm.get_command_invocation call can give back
PollReplies == Invocations \cup {NotVisible, PollException}
\* the replies explored when several dispatches run side by side
BatchPollReplies ==
    {[kind |-> "inv", status |-> "Success", stdout |-> "out", stderr |-> ""],
     [kind |-> "inv", status |-> "Success", stdout |-> "", stderr |-> ""],
     [kind |-> "inv", status |-> "Failed", stdout |-> "", stderr |-> "err"],
     [kind |-> "inv", status |-> "Cancelled", stdout |-> "", stderr |-> ""],
     [kind |-> "inv", status |-> "InProgress", stdout |-> "", stderr |-> ""],
     NotVisible, PollException}

NoResult == [status |-> "<running>"]

\* ------------------------------------------------------------------ state
VARIABLES
    instance_ids,     \* run_parallel argument: sequence of identifiers
    concurrency,      \* run_parallel argument: max_workers
    timeout_seconds,  \* send_ssm_command argument
    mpc,              \* calling thread: "submit" | "collect" | "returned"
    submitted,        \* number of ex.submit calls made = size of future_to_id
    snapshot,         \* futures already finished when as_completed was entered
    finished,         \* task indices in the order their futures completed
    pc,               \* per task: position of its worker in send_ssm_command
    attempt,          \* per task: iterations of the poll loop begun
    sends,            \* per task: ssm.send_command calls made
    sendReply,        \* per task: what ssm.send_command gave back
    raised,           \* per task: polls that raised (not visible, or other)
    polls,            \* per task: ssm.get_command_invocation calls made
    slept,            \* per task: total time spent in time.sleep
    inv,              \* per task: reply of the latest poll
    res,              \* per task: the future's result
    results,          \* run_parallel's results list
    collected,        \* task index behind each element of results
    logs,             \* entries run_parallel hands to log(), in order
    raw_list,         \* resolve_instances argument: sequence of tokens
    contrib,          \* identifiers each consumed token added to out
    rpc,              \* resolve_instances: "loop" | "dedupe" | "done" | "idle"
    idx,              \* resolve_instances: tokens of raw_list consumed
    out,              \* resolve_instances: identifiers gathered so far
    lookups,          \* describe_instances calls made: token index, filter, reply
    warnings,         \* [WARN] entries handed to log(), in order
    resolved,         \* resolve_instances: the returned list
    match_pattern,    \* action_append_after_match argument
    new_line,         \* action_append_after_match argument
    filepath,         \* action_append_after_match argument
    awk_keeps,        \* the instance's awk keeps the backslash of an unknown escape
    target,           \* bytes of the file at filepath on the instance
    versions,         \* the file's content originally and after each rename
    awk_script,       \* the command string built
    words,            \* the words and operators the shell split it into
    spc,              \* position in the script: "python" | "shell" | "redirect"
                      \*   | "awk" | "mv" | "done" | "failed" | "other" | "idle"
    tmp,              \* the temporary file /tmp/tm_cli_tmp.$$
    NR,               \* awk: records read
    found,            \* awk: the variable found
    exit_status,      \* exit status of the command before "&&"
    runs,             \* renames done
    args,             \* main: the parsed command line
    main_instance_ids, \* main: instance_ids, the instances to act on
    cpc,              \* main: "instances" | "selected" | "batch" | "append"
                      \*   | "interactive" | "exec" | "exit" | "idle"
    commands,         \* main: commands sent to instances so far
    exit_code,        \* argument of sys.exit, -1 before
    appended          \* main: turns of the append loop done

inputVars == <<instance_ids, concurrency, timeout_seconds>>
mainVars == <<mpc, submitted, snapshot, results, collected, logs>>
taskVars == <<finished, pc, attempt, sends, sendReply, raised, polls, slept, inv, res>>
resolveVars == <<raw_list, contrib, rpc, idx, out, lookups, warnings, resolved>>

patchVars == <<match_pattern, new_line, filepath, awk_keeps, target, versions, awk_script, words,
               spc, tmp, NR, found, exit_status, runs>>

cliVars == <<args, main_instance_ids, cpc, commands, exit_code, appended>>

vars == <<inputVars, mainVars, taskVars, resolveVars, patchVars, cliVars>>

Tasks == 1 .. Len(instance_ids)

\* ------------------------------------------------------- send_ssm_command
\* mutant: the loop runs timeout_seconds times instead of timeout_seconds / 2
PollBudget_FullTimeout(t) == t

\* range(int(timeout_seconds / 2))
PollBudget(t) == t \div POLL_INTERVAL

\* mutant: "Cancelled" left out of the tuple of terminal statuses
IsTerminal_NoCancelled(status) == status \in {"Success", "Failed", "TimedOut"}

IsTerminal(status) == status \in TerminalStatuses

FailedToSendResult(iid, e) ==
    [instance |-> iid, status |-> "FailedToSend", error |-> e,
     stdout |-> "", stderr |-> ""]

InvocationResult(iid, reply) ==
    [instance |-> iid, status |-> reply.status,
     stdout |-> reply.stdout, stderr |-> reply.stderr]

\* mutant: the result after the loop carries an error field as well
TimedOutResult_WithError(iid) ==
    [instance |-> iid, status |-> "TimedOut", error |-> "timeout",
     stdout |-> "", stderr |-> ""]

TimedOutResult(iid) ==
    [instance |-> iid, status |-> "TimedOut", stdout |-> "", stderr |-> ""]

Running == {i \in Tasks : pc[i] \in {"send", "loop", "poll", "backoff"}}

\* mutant: a failed send shuts the pool down and cancels the queued futures
Finish_CancelQueued(i, r) ==
    LET hit == IF r.status = "FailedToSend"
               THEN {j \in Tasks : pc[j] = "queued"} ELSE {}
        RECURSIVE InOrder(_)
        InOrder(n) == IF n = 0 THEN <<>>
                      ELSE InOrder(n - 1) \o (IF n \in hit THEN <<n>> ELSE <<>>)
    IN  /\ pc' = [j \in Tasks |-> IF j = i \/ j \in hit THEN "done" ELSE pc[j]]
        /\ res' = [j \in Tasks |->
                     IF j = i THEN r
                     ELSE IF j \in hit
                          THEN [instance |-> instance_ids[j], status |-> "Cancelled",
                                stdout |-> "", stderr |-> ""]
                          ELSE res[j]]
        /\ finished' = Append(finished, i) \o InOrder(Len(instance_ids))

Finish(i, r) ==
    /\ pc' = [pc EXCEPT ![i] = "done"]
    /\ res' = [res EXCEPT ![i] = r]
    /\ finished' = Append(finished, i)

\* mutant: the except clause does not return, the dispatch goes on to poll
SendCommand_ErrorIgnored(i) ==
    /\ pc[i] = "send"
    /\ sends' = [sends EXCEPT ![i] = @ + 1]
    /\ \E reply \in SendReplies :
          /\ sendReply' = [sendReply EXCEPT ![i] = reply]
          /\ pc' = [pc EXCEPT ![i] = "loop"]
          /\ UNCHANGED <<res, finished>>
    /\ UNCHANGED <<inputVars, cliVars, patchVars, mainVars, resolveVars, attempt, raised, polls,
                   slept, inv>>

\* ssm.send_command inside the try; the except returns FailedToSend
SendCommand(i) ==
    /\ pc[i] = "send"
    /\ sends' = [sends EXCEPT ![i] = @ + 1]
    /\ \E reply \in SendReplies :
          /\ sendReply' = [sendReply EXCEPT ![i] = reply]
          /\ IF reply \in SendErrors
             THEN Finish(i, FailedToSendResult(instance_ids[i], reply))
             ELSE /\ pc' = [pc EXCEPT ![i] = "loop"]
                  /\ UNCHANGED <<res, finished>>
    /\ UNCHANGED <<inputVars, cliVars, patchVars, mainVars, resolveVars, attempt, raised, polls,
                   slept, inv>>

\* head of the for loop with budget left: time.sleep(2)
Sleep(i) ==
    /\ pc[i] = "loop"
    /\ attempt[i] < PollBudget(timeout_seconds)
    /\ attempt' = [attempt EXCEPT ![i] = @ + 1]
    /\ slept' = [slept EXCEPT ![i] = @ + POLL_INTERVAL]
    /\ pc' = [pc EXCEPT ![i] = "poll"]
    /\ UNCHANGED <<inputVars, cliVars, patchVars, mainVars, resolveVars, finished, sends,
                   sendReply, raised, polls, inv, res>>

\* mutant: only InvocationDoesNotExist is caught, any other error ends the task
AfterPoll_NoCatch(i, reply) ==
    IF reply.kind = "inv" /\ reply.status \in TerminalStatuses
    THEN Finish(i, InvocationResult(instance_ids[i], reply))
    ELSE IF reply.kind = "Exception"
         THEN Finish(i, FailedToSendResult(instance_ids[i], "Exception"))
         ELSE /\ pc' = [pc EXCEPT ![i] =
                          IF reply.kind = "InvocationDoesNotExist" THEN "backoff" ELSE "loop"]
              /\ UNCHANGED <<res, finished>>

\* what the loop body does with the reply of get_command_invocation
AfterPoll(i, reply) ==
    IF reply.kind = "inv" /\ IsTerminal(reply.status)
    THEN Finish(i, InvocationResult(instance_ids[i], reply))
    ELSE /\ pc' = [pc EXCEPT ![i] =
                     IF reply.kind = "InvocationDoesNotExist" THEN "backoff" ELSE "loop"]
         /\ UNCHANGED <<res, finished>>

RepliesExplored == IF Len(instance_ids) > 1 THEN BatchPollReplies ELSE PollReplies

\* ssm.get_command_invocation and the status test
GetCommandInvocation(i) ==
    /\ pc[i] = "poll"
    /\ polls' = [polls EXCEPT ![i] = @ + 1]
    /\ \E reply \in RepliesExplored :
          /\ inv' = [inv EXCEPT ![i] = reply]
          /\ raised' = [raised EXCEPT ![i] = IF reply.kind = "inv" THEN @ ELSE @ + 1]
          /\ AfterPoll(i, reply)
    /\ UNCHANGED <<inputVars, cliVars, patchVars, mainVars, resolveVars, attempt, sends,
                   sendReply, slept>>

\* except InvocationDoesNotExist: time.sleep(1)
Backoff(i) ==
    /\ pc[i] = "backoff"
    /\ slept' = [slept EXCEPT ![i] = @ + BACKOFF]
    /\ pc' = [pc EXCEPT ![i] = "loop"]
    /\ UNCHANGED <<inputVars, cliVars, patchVars, mainVars, resolveVars, finished, attempt,
                   sends, sendReply, raised, polls, inv, res>>

\* the for loop runs out: return TimedOut
PollExhausted(i) ==
    /\ pc[i] = "loop"
    /\ attempt[i] >= PollBudget(timeout_seconds)
    /\ Finish(i, TimedOutResult(instance_ids[i]))
    /\ UNCHANGED <<inputVars, cliVars, patchVars, mainVars, resolveVars, attempt, sends,
                   sendReply, raised, polls, slept, inv>>

\* ----------------------------------------------------------- run_parallel
\* one ex.submit per element of instance_ids (the dict comprehension)
Submit ==
    /\ mpc = "submit"
    /\ submitted < Len(instance_ids)
    /\ submitted' = submitted + 1
    /\ pc' = [pc EXCEPT ![submitted + 1] = "queued"]
    /\ UNCHANGED <<inputVars, cliVars, patchVars, resolveVars, mpc, snapshot, results,
                   collected, logs, finished, attempt, sends, sendReply, raised, polls,
                   slept, inv, res>>

\* mutant: the pool admits one worker more than max_workers
SlotFree_OffByOne == Cardinality(Running) <= concurrency

\* a worker of the pool is free to take a work item
SlotFree == Cardinality(Running) < concurrency

\* mutant: a free worker takes any queued item
NextQueued_Any(i) == pc[i] = "queued"

\* the pool's work queue is FIFO: the oldest queued item is taken first
NextQueued(i) == pc[i] = "queued" /\ \A j \in 1 .. (i - 1) : pc[j] # "queued"

WorkerStart(i) ==
    /\ NextQueued(i)
    /\ SlotFree
    /\ pc' = [pc EXCEPT ![i] = "send"]
    /\ UNCHANGED <<inputVars, cliVars, patchVars, mainVars, resolveVars, finished, attempt,
                   sends, sendReply, raised, polls, slept, inv, res>>

\* the for statement enters as_completed(future_to_id)
AsCompleted ==
    /\ mpc = "submit"
    /\ submitted = Len(instance_ids)
    /\ mpc' = "collect"
    /\ snapshot' = {i \in Tasks : pc[i] = "done"}
    /\ UNCHANGED <<inputVars, cliVars, patchVars, taskVars, resolveVars, submitted, results,
                   collected, logs>>

Collected == {collected[k] : k \in 1 .. Len(collected)}

\* mutant: the loop iterates future_to_id, waiting for each future in turn
Yields_SubmissionOrder(i) ==
    /\ pc[i] = "done"
    /\ i \notin Collected
    /\ \A j \in 1 .. (i - 1) : j \in Collected

\* as_completed yields the futures finished at entry first (in no particular
\* order), then the others in the order they complete
Yields(i) ==
    /\ pc[i] = "done"
    /\ i \notin Collected
    /\ \/ i \in snapshot
       \/ /\ snapshot \subseteq Collected
          /\ \A k \in 1 .. Len(finished) :
                finished[k] = i =>
                   \A m \in 1 .. (k - 1) : finished[m] \in Collected

\* the log calls of the loop body
LogEntries(r) ==
    IF r.status = "Success"
    THEN <<[instance |-> r.instance, tag |-> "SUCCESS", status |-> "", body |-> ""]>>
         \o (IF r.stdout # ""
             THEN <<[instance |-> r.instance, tag |-> "STDOUT", status |-> "",
                     body |-> r.stdout]>>
             ELSE <<>>)
    ELSE <<[instance |-> r.instance, tag |-> "STATUS", status |-> r.status,
            body |-> r.stderr]>>

\* mutant: a result that carries an error is logged but not appended
Collect_DropFailed(i) ==
    /\ mpc = "collect"
    /\ Yields(i)
    /\ results' = IF res[i].status = "FailedToSend" THEN results
                  ELSE Append(results, res[i])
    /\ collected' = Append(collected, i)
    /\ logs' = logs \o LogEntries(res[i])
    /\ UNCHANGED <<inputVars, cliVars, patchVars, taskVars, resolveVars, mpc, submitted,
                   snapshot>>

\* mutant: the result is put at the head of the list
Collect_Prepend(i) ==
    /\ mpc = "collect"
    /\ Yields(i)
    /\ results' = <<res[i]>> \o results
    /\ collected' = Append(collected, i)
    /\ logs' = logs \o LogEntries(res[i])
    /\ UNCHANGED <<inputVars, cliVars, patchVars, taskVars, resolveVars, mpc, submitted,
                   snapshot>>

\* body of the for loop: fut.result(), results.append, log
Collect(i) ==
    /\ mpc = "collect"
    /\ Yields(i)
    /\ results' = Append(results, res[i])
    /\ collected' = Append(collected, i)
    /\ logs' = logs \o LogEntries(res[i])
    /\ UNCHANGED <<inputVars, cliVars, patchVars, taskVars, resolveVars, mpc, submitted,
                   snapshot>>

\* mutant: the loop is left after the first completed future
Return_FirstCompleted ==
    /\ mpc = "collect"
    /\ Collected # {} \/ Tasks = {}
    /\ mpc' = "returned"
    /\ UNCHANGED <<inputVars, cliVars, patchVars, taskVars, resolveVars, submitted, snapshot,
                   results, collected, logs>>

\* as_completed is exhausted, the with block ends, return results
Return ==
    /\ mpc = "collect"
    /\ Collected = Tasks
    /\ mpc' = "returned"
    /\ UNCHANGED <<inputVars, cliVars, patchVars, taskVars, resolveVars, submitted, snapshot,
                   results, collected, logs>>

\* ------------------------------------------------------ resolve_instances
\* strings are sequences of one-character strings
I111 == <<"i", "-", "1", "1", "1">>
I222 == <<"i", "-", "2", "2", "2">>
Padded == <<" ", "i", "-", "1", "1", "1", " ">>
Web == <<"w", "e", "b">>
NotHex == <<"i", "-", "x">>
Blank == <<" ", " ">>
Tokens == {I111, I222, Padded, Web, NotHex, Blank, <<>>}

Whitespace == {" ", "\t", "\n", "\r"}
HexDigits == {"0", "1", "2", "3", "4", "5", "6", "7", "8", "9",
              "a", "b", "c", "d", "e", "f", "A", "B", "C", "D", "E", "F"}

\* what one ec2.describe_instances call can give back: the InstanceIds of the
\* reservations, or an exception
LookupError == <<"ClientError">>
LookupReplies == {LookupError, <<>>, <<I222>>, <<I222, I111>>}

RECURSIVE LStrip(_)
LStrip(str) ==
    IF str # <<>> /\ Head(str) \in Whitespace THEN LStrip(Tail(str)) ELSE str

RECURSIVE RStrip(_)
RStrip(str) ==
    IF str # <<>> /\ str[Len(str)] \in Whitespace
    THEN RStrip(SubSeq(str, 1, Len(str) - 1)) ELSE str

\* item.strip()
Strip(str) == RStrip(LStrip(str))

\* mutant: the pattern is only a prefix test, r"^i-"
IsInstanceId_PrefixOnly(item) ==
    /\ Len(item) >= 2
    /\ item[1] = "i"
    /\ item[2] = "-"

\* re.match(r"^i-[0-9a-fA-F]+$", item)
IsInstanceId(item) ==
    /\ Len(item) >= 3
    /\ item[1] = "i"
    /\ item[2] = "-"
    /\ \A k \in 3 .. Len(item) : item[k] \in HexDigits

RECURSIVE SeqsUpTo(_, _)
SeqsUpTo(S, n) ==
    IF n = 0 THEN {<<>>}
    ELSE LET shorter == SeqsUpTo(S, n - 1)
         IN  shorter \cup {Append(q, x) : q \in {t \in shorter : Len(t) = n - 1}, x \in S}

Range(seq) == {seq[k] : k \in 1 .. Len(seq)}

\* mutant: the order is taken from the last occurrence of each identifier
RECURSIVE Dedupe_KeepLast(_)
Dedupe_KeepLast(seq) ==
    IF seq = <<>> THEN <<>>
    ELSE IF Head(seq) \in Range(Tail(seq))
         THEN Dedupe_KeepLast(Tail(seq))
         ELSE <<Head(seq)>> \o Dedupe_KeepLast(Tail(seq))

\* the seen / result loop: keep an identifier the first time it is met
RECURSIVE Dedupe(_)
Dedupe(seq) ==
    IF seq = <<>> THEN <<>>
    ELSE LET before == Dedupe(SubSeq(seq, 1, Len(seq) - 1))
             last == seq[Len(seq)]
         IN  IF last \in Range(before) THEN before ELSE Append(before, last)

\* the Filters argument of describe_instances
LookupFilter(item) == [name |-> item, state |-> "running"]

\* mutant: the except clause is missing, a lookup error leaves resolve_instances
Lookup_ErrorRaised(item, reply) ==
    /\ lookups' = Append(lookups, [k |-> idx + 1, filter |-> LookupFilter(item),
                                   reply |-> reply])
    /\ IF reply = LookupError
       THEN /\ rpc' = "raised"
            /\ UNCHANGED <<out, contrib, warnings>>
       ELSE IF reply = <<>>
       THEN /\ warnings' = Append(warnings, [item |-> item, kind |-> "NoRunning"])
            /\ contrib' = Append(contrib, <<>>)
            /\ UNCHANGED <<out, rpc>>
       ELSE /\ out' = out \o reply
            /\ contrib' = Append(contrib, reply)
            /\ UNCHANGED <<warnings, rpc>>

\* the try block: describe_instances by Name tag, extend out or log a warning
Lookup(item, reply) ==
    /\ lookups' = Append(lookups, [k |-> idx + 1, filter |-> LookupFilter(item),
                                   reply |-> reply])
    /\ IF reply = LookupError
       THEN /\ warnings' = Append(warnings, [item |-> item, kind |-> "Error"])
            /\ contrib' = Append(contrib, <<>>)
            /\ UNCHANGED <<out, rpc>>
       ELSE IF reply = <<>>
       THEN /\ warnings' = Append(warnings, [item |-> item, kind |-> "NoRunning"])
            /\ contrib' = Append(contrib, <<>>)
            /\ UNCHANGED <<out, rpc>>
       ELSE /\ out' = out \o reply
            /\ contrib' = Append(contrib, reply)
            /\ UNCHANGED <<warnings, rpc>>

\* one iteration of the for loop over raw_list
ResolveItem ==
    /\ rpc = "loop"
    /\ idx < Len(raw_list)
    /\ idx' = idx + 1
    /\ LET item == Strip(raw_list[idx + 1])
       IN  IF item = <<>>
           THEN /\ contrib' = Append(contrib, <<>>)
                /\ UNCHANGED <<out, lookups, warnings, rpc>>
           ELSE IF IsInstanceId(item)
           THEN /\ out' = Append(out, item)
                /\ contrib' = Append(contrib, <<item>>)
                /\ UNCHANGED <<lookups, warnings, rpc>>
           ELSE \E reply \in LookupReplies : Lookup(item, reply)
    /\ UNCHANGED <<inputVars, cliVars, patchVars, mainVars, taskVars, raw_list, resolved>>

\* after the loop: dedupe preserving order, return result
ResolveReturn ==
    /\ rpc = "loop"
    /\ idx = Len(raw_list)
    /\ resolved' = Dedupe(out)
    /\ rpc' = "done"
    /\ UNCHANGED <<inputVars, cliVars, patchVars, mainVars, taskVars, raw_list, contrib, idx,
                   out, lookups, warnings>>


\* ------------------------------------------------- action_append_after_match
\* Texts (patterns, lines to insert, file names, file contents, the command)
\* are tuples of one-character strings.

\* the replacement text '"'"' of str.replace("'", "'\"'\"'")
SQ_ESCAPE == <<"'", "\"", "'", "\"", "'">>

\* mutant: single quotes are embedded as they are
ReplaceQuote_None(text) == text

\* text.replace("'", "'\"'\"'")
RECURSIVE ReplaceQuote(_)
ReplaceQuote(text) ==
    IF text = <<>> THEN <<>>
    ELSE (IF Head(text) = "'" THEN SQ_ESCAPE ELSE <<Head(text)>>)
            \o ReplaceQuote(Tail(text))

\* the characters shlex.quote leaves unquoted: [A-Za-z0-9_@%+=:,./-]
ShlexSafe ==
    {"a", "b", "c", "d", "e", "f", "g", "h", "i", "j", "k", "l", "m",
     "n", "o", "p", "q", "r", "s", "t", "u", "v", "w", "x", "y", "z",
     "A", "B", "C", "D", "E", "F", "G", "H", "I", "J", "K", "L", "M",
     "N", "O", "P", "Q", "R", "S", "T", "U", "V", "W", "X", "Y", "Z",
     "0", "1", "2", "3", "4", "5", "6", "7", "8", "9",
     "_", "@", "%", "+", "=", ":", ",", ".", "/", "-"}

\* shlex.quote(s)
ShlexQuote(s) ==
    IF s = <<>> THEN <<"'", "'">>
    ELSE IF \A k \in 1 .. Len(s) : s[k] \in ShlexSafe THEN s
    ELSE <<"'">> \o ReplaceQuote(s) \o <<"'">>

\* r"awk -v pattern='"
AWK_PATTERN == <<
    "a", "w", "k", " ", "-", "v", " ", "p", "a", "t", "t", "e", "r", "n",
    "=", "'" >>

\* r"' -v new_line='"
AWK_NEW_LINE == <<
    "'", " ", "-", "v", " ", "n", "e", "w", "_", "l", "i", "n", "e", "=",
    "'" >>

\* the awk program, the text between the single quotes of the r"""...""" literal
AWK_PROGRAM == <<
    "B", "E", "G", "I", "N", "{", "f", "o", "u", "n", "d", "=", "0", "}",
    " ", "{", "p", "r", "i", "n", "t", "}", " ", "!", "f", "o", "u", "n",
    "d", " ", "&", "&", " ", "$", "0", " ", "~", " ", "p", "a", "t", "t",
    "e", "r", "n", " ", "{", " ", "m", "a", "t", "c", "h", "(", "$", "0",
    ",", " ", "/", "[", "^", "[", ":", "s", "p", "a", "c", "e", ":", "]",
    "]", "/", ")", ";", " ", "l", "e", "a", "d", " ", "=", " ", "(", "R",
    "S", "T", "A", "R", "T", ">", "1", "?", "s", "u", "b", "s", "t", "r",
    "(", "$", "0", ",", "1", ",", "R", "S", "T", "A", "R", "T", "-", "1",
    ")", ":", "\"", "\"", ")", ";", " ", "p", "r", "i", "n", "t", " ", "l",
    "e", "a", "d", " ", "n", "e", "w", "_", "l", "i", "n", "e", ";", " ",
    "f", "o", "u", "n", "d", "=", "1", " ", "}" >>

\* "/tmp/tm_cli_tmp.$$"
TMP_PATH == <<
    "/", "t", "m", "p", "/", "t", "m", "_", "c", "l", "i", "_", "t", "m",
    "p", ".", "$", "$" >>

\* the command string action_append_after_match hands to send_ssm_command
AwkScript(pattern, line, path) ==
    AWK_PATTERN \o ReplaceQuote(pattern) \o AWK_NEW_LINE \o ReplaceQuote(line)
        \o <<"'", " ", "'">> \o AWK_PROGRAM \o <<"'", " ">>
        \o ShlexQuote(path) \o <<" ", ">", " ">> \o TMP_PATH
        \o <<" ", "&", "&", " ", "m", "v", " ">> \o TMP_PATH \o <<" ">> \o ShlexQuote(path)

\* --------------------------------------------------- the shell on the instance
ShellBlank == {" ", "\t"}

ShellOperatorChars == {";", "&", "|", "<", ">", "(", ")"}

\* a shell word: its text after quote removal, and the number of $
\* characters in it that were not quoted literally (expansions)
Word(text, live) == [kind |-> "word", text |-> text, live |-> live]

Operator(text) == [kind |-> "op", text |-> text, live |-> 0]

\* the command ends inside a quotation
Unterminated == [kind |-> "unterminated", text |-> <<>>, live |-> 0]

NoWord == [open |-> FALSE, text |-> <<>>, live |-> 0]

Put(cur, c) == [open |-> TRUE, text |-> Append(cur.text, c), live |-> cur.live]

PutLive(cur, c) == [open |-> TRUE, text |-> Append(cur.text, c), live |-> cur.live + 1]

Flush(acc, cur) == IF cur.open THEN Append(acc, Word(cur.text, cur.live)) ELSE acc

\* the scanner before the first character. mode is "plain", "esc" (after an
\* unquoted backslash), "sq" (inside '...'), "dq" (inside "...") or "dqesc"
\* (after a backslash inside "..."); cur is the word in progress, acc the
\* tokens recognised so far, op the operator character just read, if any
ScanStart == [mode |-> "plain", cur |-> NoWord, acc |-> <<>>, op |-> ""]

\* token recognition of the POSIX shell: the scanner st reads the character c
ShellStep(st, c) ==
    LET cur == st.cur
        acc == st.acc
        to(m, w) == [mode |-> m, cur |-> w, acc |-> acc, op |-> ""]
    IN  IF st.mode = "sq"
        THEN IF c = "'" THEN to("plain", cur) ELSE to("sq", Put(cur, c))
        ELSE IF st.mode = "dq"
        THEN IF c = "\"" THEN to("plain", cur)
             ELSE IF c = "\\" THEN to("dqesc", cur)
             ELSE IF c = "$" THEN to("dq", PutLive(cur, c))
             ELSE to("dq", Put(cur, c))
        ELSE IF st.mode = "dqesc"
        THEN IF c \in {"$", "\"", "\\"}
             THEN to("dq", Put(cur, c))
             ELSE to("dq", Put(Put(cur, "\\"), c))
        ELSE IF st.mode = "esc"
        THEN IF c = "\n" THEN to("plain", cur) ELSE to("plain", Put(cur, c))
        ELSE IF c = "'" THEN to("sq", [cur EXCEPT !.open = TRUE])
        ELSE IF c = "\"" THEN to("dq", [cur EXCEPT !.open = TRUE])
        ELSE IF c = "\\" THEN to("esc", cur)
        ELSE IF c \in ShellBlank
        THEN [mode |-> "plain", cur |-> NoWord, acc |-> Flush(acc, cur), op |-> ""]
        ELSE IF c = "\n"
        THEN [mode |-> "plain", cur |-> NoWord,
              acc |-> Append(Flush(acc, cur), Operator(<<c>>)), op |-> ""]
        ELSE IF c \in ShellOperatorChars
        THEN IF st.op = c /\ c \in {"&", "|", ";", "<", ">"}
             THEN [mode |-> "plain", cur |-> NoWord,
                   acc |-> [acc EXCEPT ![Len(acc)] = Operator(<<c, c>>)], op |-> ""]
             ELSE [mode |-> "plain", cur |-> NoWord,
                   acc |-> Append(Flush(acc, cur), Operator(<<c>>)), op |-> c]
        ELSE IF c = "$" THEN to("plain", PutLive(cur, c))
        ELSE to("plain", Put(cur, c))

\* the scanner after the characters lo .. hi of the command s
RECURSIVE ShellScan(_, _, _, _)
ShellScan(s, lo, hi, st) ==
    IF lo > hi THEN st
    ELSE IF lo = hi THEN ShellStep(st, s[lo])
    ELSE LET mid == (lo + hi) \div 2
             left == ShellScan(s, lo, mid, st)
         IN  IF left.mode = "" THEN left ELSE ShellScan(s, mid + 1, hi, left)

\* the tokens of the command s; a backslash at the very end stands for itself
ShellWords(s) ==
    LET end == ShellScan(s, 1, Len(s), ScanStart)
    IN  IF end.mode = "plain" THEN Flush(end.acc, end.cur)
        ELSE IF end.mode = "esc" THEN Flush(end.acc, Put(end.cur, "\\"))
        ELSE Append(Flush(end.acc, end.cur), Unterminated)

IsPrefix(p, t) == Len(p) <= Len(t) /\ SubSeq(t, 1, Len(p)) = p

PATTERN_ASSIGN == <<"p", "a", "t", "t", "e", "r", "n", "=">>

NEW_LINE_ASSIGN == <<"n", "e", "w", "_", "l", "i", "n", "e", "=">>

\* the tokens are the command list the script was written to be:
\*   awk -v pattern=.. -v new_line=.. PROGRAM file > tmp && mv tmp file
IsPatchCommand(w, path) ==
    /\ Len(w) = 13
    /\ \A k \in 1 .. 13 : w[k].kind = (IF k \in {8, 10} THEN "op" ELSE "word")
    /\ \A k \in 1 .. 13 : w[k].live = (IF k \in {9, 12} THEN 2 ELSE 0)
    /\ w[1].text = <<"a", "w", "k">>
    /\ w[2].text = <<"-", "v">>
    /\ IsPrefix(PATTERN_ASSIGN, w[3].text)
    /\ w[4].text = <<"-", "v">>
    /\ IsPrefix(NEW_LINE_ASSIGN, w[5].text)
    /\ w[6].text = AWK_PROGRAM
    /\ w[8].text = <<">">>
    /\ w[9].text = TMP_PATH
    /\ w[10].text = <<"&", "&">>
    /\ w[11].text = <<"m", "v">>
    /\ w[12].text = TMP_PATH
    /\ w[7].text = path
    /\ w[13].text = path

\* ----------------------------------------------------------------------- awk
\* The escape sequences awk processes in the value of a -v assignment. The
\* sequences \n, \t, \\, \" and \/ are defined; for a backslash before any
\* other character explored here the result is undefined, and an awk either
\* keeps the backslash (keeps) or drops it. A backslash at the end stays.
RECURSIVE AwkUnescape(_, _)
AwkUnescape(v, keeps) ==
    IF v = <<>> THEN <<>>
    ELSE IF Head(v) # "\\" THEN <<Head(v)>> \o AwkUnescape(Tail(v), keeps)
    ELSE IF Len(v) = 1 THEN v
    ELSE LET c == v[2]
             rest == AwkUnescape(SubSeq(v, 3, Len(v)), keeps)
         IN  IF c = "n" THEN <<"\n">> \o rest
             ELSE IF c = "t" THEN <<"\t">> \o rest
             ELSE IF c \in {"\\", "\"", "/"} THEN <<c>> \o rest
             ELSE IF keeps THEN <<"\\", c>> \o rest
             ELSE <<c>> \o rest

\* the value of the -v assignment in word w whose name and "=" are assign
AssignedValue(w, assign, keeps) ==
    AwkUnescape(SubSeq(w.text, Len(assign) + 1, Len(w.text)), keeps)

\* An extended regular expression as a sequence of atoms: ^ and $ are
\* anchors, . is any character, a backslash makes the next character
\* literal, a backslash at the end is an error. The other operators
\* (* + ? | and brackets) do not occur in the patterns explored.
RECURSIVE RegexAtoms(_)
RegexAtoms(p) ==
    IF p = <<>> THEN <<>>
    ELSE IF Head(p) = "\\"
    THEN IF Len(p) = 1
         THEN <<[kind |-> "bad", ch |-> ""]>>
         ELSE <<[kind |-> "lit", ch |-> p[2]]>> \o RegexAtoms(SubSeq(p, 3, Len(p)))
    ELSE <<[kind |-> IF Head(p) = "^" THEN "bol"
                     ELSE IF Head(p) = "$" THEN "eol"
                     ELSE IF Head(p) = "." THEN "any"
                     ELSE "lit",
            ch |-> Head(p)]>> \o RegexAtoms(Tail(p))

RegexValid(p) == \A k \in 1 .. Len(RegexAtoms(p)) : RegexAtoms(p)[k].kind # "bad"

RECURSIVE MatchFrom(_, _, _, _)
MatchFrom(line, atoms, j, pos) ==
    IF j > Len(atoms) THEN TRUE
    ELSE IF atoms[j].kind = "bol" THEN pos = 1 /\ MatchFrom(line, atoms, j + 1, pos)
    ELSE IF atoms[j].kind = "eol"
    THEN pos = Len(line) + 1 /\ MatchFrom(line, atoms, j + 1, pos)
    ELSE /\ pos <= Len(line)
         /\ atoms[j].kind = "any" \/ (atoms[j].kind = "lit" /\ line[pos] = atoms[j].ch)
         /\ MatchFrom(line, atoms, j + 1, pos + 1)

\* $0 ~ p
Matches(line, p) ==
    /\ RegexValid(p)
    /\ \E pos \in 1 .. (Len(line) + 1) : MatchFrom(line, RegexAtoms(p), 1, pos)

\* the records awk reads from a file: the text before each newline, and the
\* text after the last newline if there is any
RECURSIVE Records(_)
Records(bytes) ==
    IF bytes = <<>> THEN <<>>
    ELSE IF \A k \in 1 .. Len(bytes) : bytes[k] # "\n" THEN <<bytes>>
    ELSE LET k == CHOOSE k \in 1 .. Len(bytes) :
                      bytes[k] = "\n" /\ \A m \in 1 .. (k - 1) : bytes[m] # "\n"
         IN  <<SubSeq(bytes, 1, k - 1)>> \o Records(SubSeq(bytes, k + 1, Len(bytes)))

\* the character class [:space:]
SpaceClass == {" ", "\t", "\n", "\r", "\f"}

\* match($0, /[^[:space:]]/): RSTART is the index of the first character
\* that is not white space, 0 if there is none
RSTART(rec) ==
    IF \A k \in 1 .. Len(rec) : rec[k] \in SpaceClass THEN 0
    ELSE CHOOSE k \in 1 .. Len(rec) :
             rec[k] \notin SpaceClass /\ \A m \in 1 .. (k - 1) : rec[m] \in SpaceClass

\* lead = (RSTART>1?substr($0,1,RSTART-1):"")
Lead(rec) == IF RSTART(rec) > 1 THEN SubSeq(rec, 1, RSTART(rec) - 1) ELSE <<>>

\* print: the text and the output record separator
AwkPrint(text) == text \o <<"\n">>

\* mutant: the rename is joined with ";" and runs whatever awk returned
AndThen_Always(st) == TRUE

\* cmd1 && cmd2: cmd2 runs if cmd1 returned zero
AndThen(st) == st = "zero"

\* ------------------------------------------------ the patch script, stepwise
NoTmp == [exists |-> FALSE, bytes |-> <<>>]

\* the script ends after a command that returned st: the rename after "&&"
\* runs or the list is over
AfterAwk(st) == IF AndThen(st) THEN "mv" ELSE "failed"

\* action_append_after_match builds the command; send_ssm_command delivers it
ActionAppendAfterMatch ==
    /\ spc = "python"
    /\ awk_script' = AwkScript(match_pattern, new_line, filepath)
    /\ spc' = "shell"
    /\ UNCHANGED <<inputVars, cliVars, mainVars, taskVars, resolveVars, match_pattern, new_line,
                   filepath, awk_keeps, target, versions, words, tmp, NR, found, exit_status, runs>>

\* the shell on the instance splits the command into words and operators
ShellParse ==
    /\ spc = "shell"
    /\ words' = ShellWords(awk_script)
    /\ spc' = IF IsPatchCommand(words', filepath) THEN "redirect" ELSE "other"
    /\ UNCHANGED <<inputVars, cliVars, mainVars, taskVars, resolveVars, match_pattern, new_line,
                   filepath, awk_keeps, target, versions, awk_script, tmp, NR, found, exit_status,
                   runs>>

\* "> /tmp/tm_cli_tmp.$$": the temporary file is created empty, awk starts
Redirect ==
    /\ spc = "redirect"
    /\ tmp' = [exists |-> TRUE, bytes |-> <<>>]
    /\ NR' = 0
    /\ found' = FALSE
    /\ exit_status' = "none"
    /\ spc' = "awk"
    /\ UNCHANGED <<inputVars, cliVars, mainVars, taskVars, resolveVars, match_pattern, new_line,
                   filepath, awk_keeps, target, versions, awk_script, words, runs>>

\* the temporary file cannot be created: awk is not run, the command fails
RedirectFails ==
    /\ spc = "redirect"
    /\ exit_status' = "nonzero"
    /\ spc' = AfterAwk("nonzero")
    /\ UNCHANGED <<inputVars, cliVars, mainVars, taskVars, resolveVars, match_pattern, new_line,
                   filepath, awk_keeps, target, versions, awk_script, words, tmp, NR, found,
                   runs>>

\* awk reads one record and runs the two rules on it; the pattern is compiled
\* when the second rule first compares, and awk gives up if it is no regular
\* expression
AwkRecord ==
    /\ spc = "awk"
    /\ NR < Len(Records(target))
    /\ LET rec == Records(target)[NR + 1]
           pattern == AssignedValue(words[3], PATTERN_ASSIGN, awk_keeps)
           line == AssignedValue(words[5], NEW_LINE_ASSIGN, awk_keeps)
           hit == ~found /\ Matches(rec, pattern)
       IN  IF ~found /\ ~RegexValid(pattern)
           THEN /\ tmp' = [tmp EXCEPT !.bytes = @ \o AwkPrint(rec)]
                /\ exit_status' = "nonzero"
                /\ spc' = AfterAwk("nonzero")
                /\ UNCHANGED <<NR, found>>
           ELSE /\ tmp' = [tmp EXCEPT !.bytes =
                              @ \o AwkPrint(rec)
                                \o (IF hit THEN AwkPrint(Lead(rec) \o line) ELSE <<>>)]
                /\ found' = (found \/ hit)
                /\ NR' = NR + 1
                /\ UNCHANGED <<exit_status, spc>>
    /\ UNCHANGED <<inputVars, cliVars, mainVars, taskVars, resolveVars, match_pattern, new_line,
                   filepath, awk_keeps, target, versions, awk_script, words, runs>>

\* awk ends before the end of the file: a read or write error, a signal
AwkKilled ==
    /\ spc = "awk"
    /\ exit_status' = "nonzero"
    /\ spc' = AfterAwk("nonzero")
    /\ UNCHANGED <<inputVars, cliVars, mainVars, taskVars, resolveVars, match_pattern, new_line,
                   filepath, awk_keeps, target, versions, awk_script, words, tmp, NR, found,
                   runs>>

\* end of input: awk returns zero
AwkExit ==
    /\ spc = "awk"
    /\ NR = Len(Records(target))
    /\ exit_status' = "zero"
    /\ spc' = AfterAwk("zero")
    /\ UNCHANGED <<inputVars, cliVars, mainVars, taskVars, resolveVars, match_pattern, new_line,
                   filepath, awk_keeps, target, versions, awk_script, words, tmp, NR, found,
                   runs>>

\* mv /tmp/tm_cli_tmp.$$ file
Mv ==
    /\ spc = "mv"
    /\ IF tmp.exists
       THEN /\ target' = tmp.bytes
            /\ versions' = Append(versions, tmp.bytes)
            /\ tmp' = NoTmp
            /\ runs' = runs + 1
            /\ spc' = "done"
       ELSE /\ spc' = "failed"
            /\ UNCHANGED <<target, versions, tmp, runs>>
    /\ UNCHANGED <<inputVars, cliVars, mainVars, taskVars, resolveVars, match_pattern, new_line,
                   filepath, awk_keeps, awk_script, words, NR, found, exit_status>>

\* the same append is asked for again
Reapply ==
    /\ spc = "done"
    /\ runs < MaxRuns
    /\ spc' = "python"
    /\ UNCHANGED <<inputVars, cliVars, mainVars, taskVars, resolveVars, match_pattern, new_line,
                   filepath, awk_keeps, target, versions, awk_script, words, tmp, NR, found,
                   exit_status, runs>>

\* ------------------------------------------------------------ patch inputs
\* the lines files are made of: flush left, indented, white space only
FileLines == {<<"a">>, <<" ", "a">>, <<" ">>}

RECURSIVE Unlines(_, _)
\* the bytes of a file with the lines ls; the last line ends with a newline
\* if nl
Unlines(ls, nl) ==
    IF ls = <<>> THEN <<>>
    ELSE IF Len(ls) = 1 THEN IF nl THEN AwkPrint(ls[1]) ELSE ls[1]
    ELSE AwkPrint(Head(ls)) \o Unlines(Tail(ls), nl)

Files == {Unlines(x[1], x[2]) : x \in SeqsUpTo(FileLines, MaxLines) \X BOOLEAN}

Patterns == {<<"a">>, <<"^", "a">>, <<" ">>, <<"c">>, <<"\\", ".">>}

InsertTexts == {<<"p">>, <<"\\", "n">>, <<"\\", "p">>}

FilePaths == {<<"f">>, <<"a", " ", "b">>, <<"a", "'", "b">>}

\* the characters of the texts the quoting is explored with
QuoteChars == {"'", "\"", " ", ";", "$", "\\", "p"}

Texts == SeqsUpTo(QuoteChars, MaxText) \ {<<>>}

QuoteFile == <<" ", "p", "\n", "p", "\n">>


\* ---------------------------------------------------------------------- main
\* the values of --action: none, the six documented ones, and any other
Actions == {"", "ssm", "git-pull", "git-checkout", "custom", "find", "append", "other"}

\* what parse_args returns, as far as the batch flow reads it: for an option
\* with a value, whether a non-empty value was given
Args ==
    [instances : BOOLEAN, batch : BOOLEAN, parallel : BOOLEAN, action : Actions,
     cmd : BOOLEAN, file : BOOLEAN, match : BOOLEAN, newline : BOOLEAN]

\* the lists resolve_instances or the interactive selection can give
Selections == {SubSeq(IdPool, 1, n) : n \in 0 .. MaxInstances}

\* sys.exit(code)
Exit(code) ==
    /\ cpc' = "exit"
    /\ exit_code' = code

\* one command handed to run_parallel for every instance of ids
Dispatch(ids, kind) ==
    commands' = commands \o [k \in 1 .. Len(ids) |-> [instance |-> ids[k], kind |-> kind]]

\* "determine instances": resolve --instances, or ask, or nothing
DetermineInstances ==
    /\ cpc = "instances"
    /\ IF args.instances \/ ~args.batch
       THEN main_instance_ids' \in Selections
       ELSE main_instance_ids' = <<>>
    /\ cpc' = "selected"
    /\ UNCHANGED <<inputVars, patchVars, mainVars, taskVars, resolveVars, args, commands,
                   exit_code, appended>>

\* if not instance_ids: exit
NoInstances ==
    /\ cpc = "selected"
    /\ main_instance_ids = <<>>
    /\ Exit(1)
    /\ UNCHANGED <<inputVars, patchVars, mainVars, taskVars, resolveVars, args,
                   main_instance_ids, commands, appended>>

\* if args.batch or args.action
EnterBatch ==
    /\ cpc = "selected"
    /\ main_instance_ids # <<>>
    /\ args.batch \/ args.action # ""
    /\ cpc' = "batch"
    /\ UNCHANGED <<inputVars, patchVars, mainVars, taskVars, resolveVars, args,
                   main_instance_ids, commands, exit_code, appended>>

\* otherwise the interactive menu follows
EnterInteractive ==
    /\ cpc = "selected"
    /\ main_instance_ids # <<>>
    /\ ~(args.batch \/ args.action # "")
    /\ cpc' = "interactive"
    /\ UNCHANGED <<inputVars, patchVars, mainVars, taskVars, resolveVars, args,
                   main_instance_ids, commands, exit_code, appended>>

\* if not action: exit
NoAction ==
    /\ cpc = "batch"
    /\ args.action = ""
    /\ Exit(1)
    /\ UNCHANGED <<inputVars, patchVars, mainVars, taskVars, resolveVars, args,
                   main_instance_ids, commands, appended>>

\* action "ssm": the process is replaced by aws ssm start-session
ActionSsm ==
    /\ cpc = "batch"
    /\ args.action = "ssm"
    /\ cpc' = "exec"
    /\ UNCHANGED <<inputVars, patchVars, mainVars, taskVars, resolveVars, args,
                   main_instance_ids, commands, exit_code, appended>>

\* actions "git-pull", "git-checkout" and "find": every option has a default
ActionRun ==
    /\ cpc = "batch"
    /\ args.action \in {"git-pull", "git-checkout", "find"}
    /\ Dispatch(main_instance_ids, args.action)
    /\ Exit(0)
    /\ UNCHANGED <<inputVars, patchVars, mainVars, taskVars, resolveVars, args,
                   main_instance_ids, appended>>

\* action "custom"
ActionCustom ==
    /\ cpc = "batch"
    /\ args.action = "custom"
    /\ IF ~args.cmd
       THEN Exit(1) /\ UNCHANGED commands
       ELSE Dispatch(main_instance_ids, "custom") /\ Exit(0)
    /\ UNCHANGED <<inputVars, patchVars, mainVars, taskVars, resolveVars, args,
                   main_instance_ids, appended>>

\* if not args.file and not args.match
FileAndMatchMissing(a) == ~a.file /\ ~a.match

\* action "append": the two tests before the loop over the instances
ActionAppend ==
    /\ cpc = "batch"
    /\ args.action = "append"
    /\ IF FileAndMatchMissing(args) \/ ~args.newline
       THEN Exit(1)
       ELSE cpc' = "append" /\ UNCHANGED exit_code
    /\ UNCHANGED <<inputVars, patchVars, mainVars, taskVars, resolveVars, args,
                   main_instance_ids, commands, appended>>

\* one turn of the loop: without --file a find is sent to the instance and
\* its first line, if any, is the file; then the append is sent
AppendOne ==
    /\ cpc = "append"
    /\ appended < Len(main_instance_ids)
    /\ appended' = appended + 1
    /\ LET iid == main_instance_ids[appended + 1]
           find == [instance |-> iid, kind |-> "find"]
           append == [instance |-> iid, kind |-> "append"]
       IN  IF args.file
           THEN commands' = Append(commands, append)
           ELSE \E chosen \in BOOLEAN :
                   commands' = commands \o <<find>> \o (IF chosen THEN <<append>> ELSE <<>>)
    /\ UNCHANGED <<inputVars, patchVars, mainVars, taskVars, resolveVars, args,
                   main_instance_ids, cpc, exit_code>>

\* the loop is over
AppendDone ==
    /\ cpc = "append"
    /\ appended = Len(main_instance_ids)
    /\ Exit(0)
    /\ UNCHANGED <<inputVars, patchVars, mainVars, taskVars, resolveVars, args,
                   main_instance_ids, commands, appended>>

\* any other action
UnknownAction ==
    /\ cpc = "batch"
    /\ args.action = "other"
    /\ Exit(1)
    /\ UNCHANGED <<inputVars, patchVars, mainVars, taskVars, resolveVars, args,
                   main_instance_ids, commands, appended>>


\* ---------------------------------------------------------- specification
\* lists of every length up to MaxInstances: one of distinct identifiers and
\* one that repeats an identifier
InstanceLists ==
    {SubSeq(IdPool, 1, n) : n \in 0 .. MaxInstances}
        \cup {[k \in 1 .. n |-> IdPool[1]] : n \in 2 .. MaxInstances}

\* a lone dispatch may have any timeout up to MaxTimeout; the dispatches of a
\* batch all run with the one default timeout, BatchTimeout
Inputs ==
    {<<ids, c, t>> \in InstanceLists \X (1 .. MaxConcurrency) \X (0 .. MaxTimeout) :
        Len(ids) > 1 => t = BatchTimeout}

PatchStart(P, N, F, k, t, m) ==
    /\ match_pattern = P
    /\ new_line = N
    /\ filepath = F
    /\ awk_keeps = k
    /\ target = t
    /\ versions = <<t>>
    /\ awk_script = <<>>
    /\ words = <<>>
    /\ spc = m
    /\ tmp = NoTmp
    /\ NR = 0
    /\ found = FALSE
    /\ exit_status = "none"
    /\ runs = 0

\* no append is running
PatchIdle == PatchStart(<<>>, <<>>, <<>>, FALSE, <<>>, "idle")


\* main has not been entered
MainStart(a, m) ==
    /\ args = a
    /\ main_instance_ids = <<>>
    /\ cpc = m
    /\ commands = <<>>
    /\ exit_code = -1
    /\ appended = 0

NoArgs ==
    [instances |-> FALSE, batch |-> FALSE, parallel |-> FALSE, action |-> "",
     cmd |-> FALSE, file |-> FALSE, match |-> FALSE, newline |-> FALSE]

MainIdle == MainStart(NoArgs, "idle")

\* resolve_instances is not running
ResolverIdle ==
    /\ raw_list = <<>>
    /\ contrib = <<>>
    /\ rpc = "idle"
    /\ idx = 0
    /\ out = <<>>
    /\ lookups = <<>>
    /\ warnings = <<>>
    /\ resolved = <<>>

EngineStart(ids, c, t, m) ==
    /\ instance_ids = ids
    /\ concurrency = c
    /\ timeout_seconds = t
    /\ mpc = m
    /\ submitted = 0
    /\ snapshot = {}
    /\ finished = <<>>
    /\ pc = [i \in Tasks |-> "unsubmitted"]
    /\ attempt = [i \in Tasks |-> 0]
    /\ sends = [i \in Tasks |-> 0]
    /\ sendReply = [i \in Tasks |-> "none"]
    /\ raised = [i \in Tasks |-> 0]
    /\ polls = [i \in Tasks |-> 0]
    /\ slept = [i \in Tasks |-> 0]
    /\ inv = [i \in Tasks |-> NoReply]
    /\ res = [i \in Tasks |-> NoResult]
    /\ results = <<>>
    /\ collected = <<>>
    /\ logs = <<>>

Init ==
    /\ \E in \in Inputs : EngineStart(in[1], in[2], in[3], "submit")
    /\ ResolverIdle
    /\ PatchIdle
    /\ MainIdle

Worker(i) ==
    \/ WorkerStart(i)
    \/ SendCommand(i)
    \/ Sleep(i)
    \/ GetCommandInvocation(i)
    \/ Backoff(i)
    \/ PollExhausted(i)

Next ==
    \/ Submit
    \/ AsCompleted
    \/ \E i \in Tasks : Collect(i)
    \/ Return
    \/ \E i \in Tasks : Worker(i)

Spec == Init /\ [][Next]_vars

InitResolve ==
    /\ EngineStart(<<>>, 1, 0, "idle")
    /\ raw_list \in SeqsUpTo(Tokens, MaxTokens)
    /\ contrib = <<>>
    /\ rpc = "loop"
    /\ idx = 0
    /\ out = <<>>
    /\ lookups = <<>>
    /\ warnings = <<>>
    /\ resolved = <<>>
    /\ PatchIdle
    /\ MainIdle

NextResolve ==
    \/ ResolveItem
    \/ ResolveReturn

SpecResolve == InitResolve /\ [][NextResolve]_vars

NextPatch ==
    \/ ActionAppendAfterMatch
    \/ ShellParse
    \/ Redirect
    \/ RedirectFails
    \/ AwkRecord
    \/ AwkKilled
    \/ AwkExit
    \/ Mv
    \/ Reapply

\* appends to every file of up to MaxLines lines, on either kind of awk
InitPatch ==
    /\ EngineStart(<<>>, 1, 0, "idle")
    /\ ResolverIdle
    /\ MainIdle
    /\ \E P \in Patterns, N \in InsertTexts, t \in Files, k \in BOOLEAN :
          PatchStart(P, N, <<"f">>, k, t, "python")

SpecPatch == InitPatch /\ [][NextPatch]_vars

\* appends to one file where the pattern or the new line is any text of up to
\* MaxText characters of QuoteChars
InitQuote ==
    /\ EngineStart(<<>>, 1, 0, "idle")
    /\ ResolverIdle
    /\ MainIdle
    /\ \E x \in (Texts \X {<<"p">>}) \cup ({<<"p">>} \X Texts),
          F \in FilePaths, k \in BOOLEAN :
          PatchStart(x[1], x[2], F, k, QuoteFile, "python")

SpecQuote == InitQuote /\ [][NextPatch]_vars

NextMain ==
    \/ DetermineInstances
    \/ NoInstances
    \/ EnterBatch
    \/ EnterInteractive
    \/ NoAction
    \/ ActionSsm
    \/ ActionRun
    \/ ActionCustom
    \/ ActionAppend
    \/ AppendOne
    \/ AppendDone
    \/ UnknownAction

\* main from the point where the instances are determined, for every
\* combination of the options
InitMain ==
    /\ EngineStart(<<>>, 1, 0, "idle")
    /\ ResolverIdle
    /\ PatchIdle
    /\ \E a \in Args : MainStart(a, "instances")

SpecMain == InitMain /\ [][NextMain]_vars

\* main is one thread: a statement that can run does run
FairMain == SpecMain /\ WF_vars(NextMain)

\* Threads that can run are scheduled and the blocking calls (send, sleep,
\* poll) return: while some step is possible, a step is taken.
FairSpec == Spec /\ WF_vars(Next)

\* ------------------------------------------------------------------ claims
Occurrences(seq, x) == Cardinality({k \in 1 .. Len(seq) : seq[k] = x})

InstanceOf(seq) == [k \in 1 .. Len(seq) |-> seq[k].instance]

\* the latest poll of task i saw one of the four terminal statuses
SawTerminal(i) ==
    inv[i].kind = "inv" /\ inv[i].status \in {"Success", "Failed", "TimedOut", "Cancelled"}

\* the result send_ssm_command owes task i, from what task i alone was told
OwnOutcome(i) ==
    IF sendReply[i] # "CommandId"
    THEN [instance |-> instance_ids[i], status |-> "FailedToSend",
          error |-> sendReply[i], stdout |-> "", stderr |-> ""]
    ELSE IF SawTerminal(i)
         THEN [instance |-> instance_ids[i], status |-> inv[i].status,
               stdout |-> inv[i].stdout, stderr |-> inv[i].stderr]
         ELSE [instance |-> instance_ids[i], status |-> "TimedOut",
               stdout |-> "", stderr |-> ""]

\* C1: when run_parallel returns, results has exactly one entry per element of
\* instance_ids, whatever each dispatch met (send error, terminal status, poll
\* errors, exhausted budget), and every entry carries the identifier of the
\* task it was collected from.
C1_Cardinality ==
    mpc = "returned" =>
        /\ Len(results) = Len(instance_ids)
        /\ Len(collected) = Len(results)
        /\ \A i \in Tasks : Occurrences(collected, i) = 1
        /\ \A k \in 1 .. Len(results) :
              k <= Len(collected) => results[k].instance = instance_ids[collected[k]]
        /\ \A id \in InstanceIds :
              Occurrences(InstanceOf(results), id) = Occurrences(instance_ids, id)

C1_Witness ==
    /\ mpc = "returned"
    /\ Len(instance_ids) >= 2
    /\ \E k \in 1 .. Len(results) : results[k].status = "FailedToSend"
    /\ \E i \in Tasks : res[i].status = "TimedOut" /\ raised[i] > 0 /\ ~SawTerminal(i)

\* C2: once some task's send has failed, every other task still runs its own
\* dispatch and its result is the one its own send and poll replies determine;
\* none is finished, dropped or marked Cancelled on the sibling's account.
C2_Isolation ==
    \A j \in Tasks :
        res[j].status = "FailedToSend" =>
            \A i \in Tasks \ {j} :
                /\ pc[i] = "done" => sends[i] = 1 /\ res[i] = OwnOutcome(i)
                /\ pc[i] # "done" => res[i] = NoResult
                /\ mpc = "returned" =>
                      \E k \in 1 .. Len(results) :
                          collected[k] = i /\ results[k] = OwnOutcome(i)

C2_Witness ==
    /\ mpc = "returned"
    /\ Len(instance_ids) >= 2
    /\ res[1].status = "FailedToSend"
    /\ res[2].status = "Success"
    /\ finished[1] = 1

\* C3: run_parallel returns only when every task has finished and been
\* collected, and under fair scheduling it does return.
C3_WaitsForAll ==
    /\ [](mpc = "returned" =>
            \A i \in Tasks : pc[i] = "done" /\ res[i] # NoResult /\ i \in Collected)
    /\ <>(mpc = "returned")

C3_Witness ==
    /\ mpc = "returned"
    /\ Len(finished) >= 2
    /\ res[finished[1]].status = "FailedToSend"
    /\ res[finished[2]].status # "FailedToSend"

\* C4: never more than concurrency tasks are between start and finish; each
\* element of instance_ids gets one submitted task and one send; a queued task
\* starts only in a state where fewer than concurrency tasks are running.
C4_BoundedPool ==
    /\ [](/\ Cardinality(Running) <= concurrency
          /\ submitted <= Len(instance_ids)
          /\ mpc # "submit" => submitted = Len(instance_ids)
          /\ \A i \in Tasks :
                /\ sends[i] <= 1
                /\ pc[i] = "unsubmitted" <=> i > submitted
                /\ pc[i] = "done" /\ mpc = "returned" => sends[i] = 1)
    /\ [][\A i \in Tasks :
             pc[i] = "queued" /\ pc'[i] # "queued" =>
                 pc'[i] = "send" /\ Cardinality(Running) < concurrency]_vars

C4_Witness ==
    \E i, j \in Tasks :
        /\ i > concurrency
        /\ pc[j] = "done"
        /\ pc[i] = "send"
        /\ Cardinality(Running) = concurrency

\* C5: a send that raises gives FailedToSend with the error text and empty
\* stdout and stderr, after no poll and no sleep.
C5_SendFailure ==
    \A i \in Tasks :
        sendReply[i] \in SendErrors =>
            /\ pc[i] = "done"
            /\ res[i] = [instance |-> instance_ids[i], status |-> "FailedToSend",
                         error |-> sendReply[i], stdout |-> "", stderr |-> ""]
            /\ polls[i] = 0
            /\ slept[i] = 0

C5_Witness ==
    \E i \in Tasks :
        /\ sendReply[i] \in SendErrors
        /\ \E k \in 1 .. Len(results) : collected[k] = i /\ results[k].error = sendReply[i]

\* C6: polls of one dispatch come one at a time, each from the poll position;
\* a poll that sees a terminal status finishes the dispatch with that status
\* and that reply's stdout and stderr, and no poll follows it.
C6_FirstTerminalEnds ==
    /\ [](\A i \in Tasks :
             SawTerminal(i) =>
                 /\ pc[i] = "done"
                 /\ res[i] = [instance |-> instance_ids[i], status |-> inv[i].status,
                              stdout |-> inv[i].stdout, stderr |-> inv[i].stderr])
    /\ [][\A i \in Tasks :
             /\ polls'[i] # polls[i] =>
                   polls'[i] = polls[i] + 1 /\ pc[i] = "poll" /\ ~SawTerminal(i)
             /\ SawTerminal(i) => inv'[i] = inv[i] /\ res'[i] = res[i]]_vars

C6_Witness ==
    \E i \in Tasks :
        /\ pc[i] = "done"
        /\ polls[i] >= 2
        /\ raised[i] = 0
        /\ res[i].status = "Cancelled"
        /\ res[i].stderr = "err"

\* C7: after a successful send the dispatch makes at most floor(timeout / 2)
\* polls; if none sees a terminal status (none is made when floor(timeout / 2)
\* is 0) the result is TimedOut with empty stdout and stderr; and under fair
\* scheduling every dispatch finishes.
C7_PollBudget ==
    /\ [](\A i \in Tasks :
             /\ polls[i] <= timeout_seconds \div 2
             /\ pc[i] = "done" /\ sendReply[i] = "CommandId" /\ ~SawTerminal(i) =>
                   /\ res[i] = [instance |-> instance_ids[i], status |-> "TimedOut",
                                stdout |-> "", stderr |-> ""]
                   /\ polls[i] = timeout_seconds \div 2)
    /\ <>(\A i \in Tasks : pc[i] = "done")

C7_Witness ==
    \E i \in Tasks :
        /\ timeout_seconds = 1
        /\ sendReply[i] = "CommandId"
        /\ pc[i] = "done"
        /\ polls[i] = 0
        /\ res[i].status = "TimedOut"

\* C8: a dispatch that ends TimedOut without having seen a terminal status has
\* slept at most timeout plus one poll interval.
C8_SleepBound ==
    \A i \in Tasks :
        pc[i] = "done" /\ sendReply[i] = "CommandId" /\ ~SawTerminal(i) =>
            slept[i] <= timeout_seconds + 2

\* C9: a poll that raises (invocation not visible, or any other error) does not
\* finish the dispatch and sets no result; a dispatch whose latest poll raised
\* ends only by exhausting the budget, as TimedOut; and a terminal status seen
\* after polls that raised is the result.
C9_TransientPoll ==
    /\ [](\A i \in Tasks :
             /\ pc[i] = "done" /\ inv[i].kind \in {"InvocationDoesNotExist", "Exception"} =>
                   /\ res[i] = [instance |-> instance_ids[i], status |-> "TimedOut",
                                stdout |-> "", stderr |-> ""]
                   /\ attempt[i] = timeout_seconds \div 2
             /\ pc[i] = "done" /\ raised[i] > 0 /\ SawTerminal(i) =>
                   res[i].status = inv[i].status)
    /\ [][\A i \in Tasks :
             polls'[i] # polls[i]
               /\ inv'[i].kind \in {"InvocationDoesNotExist", "Exception"} =>
                 /\ pc'[i] \in {"backoff", "loop"}
                 /\ res'[i] = NoResult
                 /\ raised'[i] = raised[i] + 1]_vars

C9_Witness ==
    \E i \in Tasks :
        /\ pc[i] = "done"
        /\ raised[i] >= 2
        /\ slept[i] = POLL_INTERVAL * attempt[i] + BACKOFF
        /\ res[i].status = "Failed"

RECURSIVE Flatten(_)
Flatten(seqs) == IF seqs = <<>> THEN <<>> ELSE Head(seqs) \o Flatten(Tail(seqs))

FirstIndex(seq, x) == CHOOSE k \in 1 .. Len(seq) : seq[k] = x /\ \A m \in 1 .. (k - 1) : seq[m] # x

\* C10: the list resolve_instances returns holds every identifier the tokens
\* contributed, none of them twice, in the order of their first occurrence in
\* the concatenation of the per-token contributions.
C10_DedupFirstSeen ==
    rpc = "done" =>
        /\ out = Flatten(contrib)
        /\ Range(resolved) = Range(out)
        /\ \A a, b \in 1 .. Len(resolved) :
              /\ a # b => resolved[a] # resolved[b]
              /\ a < b => FirstIndex(out, resolved[a]) < FirstIndex(out, resolved[b])

C10_Witness ==
    /\ rpc = "done"
    /\ raw_list = <<I111, Web, I111>>
    /\ contrib = << <<I111>>, <<I222>>, <<I111>> >>
    /\ resolved = <<I111, I222>>

\* the pattern i-<hex>: "i-" followed by one or more hexadecimal digits
MatchesIdPattern(tok) ==
    /\ Len(tok) >= 3
    /\ SubSeq(tok, 1, 2) = <<"i", "-">>
    /\ \A k \in 3 .. Len(tok) :
          tok[k] \in {"0", "1", "2", "3", "4", "5", "6", "7", "8", "9",
                      "a", "b", "c", "d", "e", "f", "A", "B", "C", "D", "E", "F"}

\* indices of the consumed tokens that are neither blank nor an identifier
RECURSIVE SymbolicUpTo(_)
SymbolicUpTo(n) ==
    IF n = 0 THEN <<>>
    ELSE SymbolicUpTo(n - 1)
            \o (IF Strip(raw_list[n]) # <<>> /\ ~MatchesIdPattern(Strip(raw_list[n]))
                THEN <<n>> ELSE <<>>)

BadReply(l) == l.reply = LookupError \/ l.reply = <<>>

\* C12: a lookup that raises or finds no running instance logs one warning for
\* its token and adds nothing to out; the loop goes on, so at return every
\* token has been consumed and every identifier a token contributed is in the
\* returned list.
C12_WarningsNonFatal ==
    LET bad == SelectSeq(lookups, BadReply)
    IN  /\ rpc \in {"loop", "done"}
        /\ Len(contrib) = idx
        /\ Len(warnings) = Len(bad)
        /\ \A m \in 1 .. Len(bad) :
              /\ m <= Len(warnings) =>
                    warnings[m] = [item |-> bad[m].filter.name,
                                   kind |-> IF bad[m].reply = LookupError
                                            THEN "Error" ELSE "NoRunning"]
              /\ bad[m].k <= Len(contrib) => contrib[bad[m].k] = <<>>
        /\ \A m \in 1 .. Len(lookups) :
              ~BadReply(lookups[m]) /\ lookups[m].k <= Len(contrib) =>
                  contrib[lookups[m].k] = lookups[m].reply
        /\ rpc = "done" =>
              /\ idx = Len(raw_list)
              /\ \A k \in 1 .. Len(contrib) : Range(contrib[k]) \subseteq Range(resolved)

C12_Witness ==
    /\ rpc = "done"
    /\ raw_list = <<Web, NotHex, Web>>
    /\ Len(warnings) = 2
    /\ warnings[1].kind = "Error"
    /\ warnings[2].kind = "NoRunning"
    /\ resolved = <<I222>>

\* index of the first record the regular expression p matches, 0 if none
FirstMatch(recs, p) ==
    IF \A k \in 1 .. Len(recs) : ~Matches(recs[k], p) THEN 0
    ELSE CHOOSE k \in 1 .. Len(recs) :
             Matches(recs[k], p) /\ \A m \in 1 .. (k - 1) : ~Matches(recs[m], p)

\* the longest prefix of a line that is white space
LeadingWhitespace(line) ==
    LET n == CHOOSE n \in 0 .. Len(line) :
                 /\ \A k \in 1 .. n : line[k] \in {" ", "\t"}
                 /\ n = Len(line) \/ line[n + 1] \notin {" ", "\t"}
    IN  SubSeq(line, 1, n)

\* C13: each application that reaches the rename leaves every line of the
\* file as it was and in order, and when a line matches match_pattern adds
\* exactly one line, right after the first matching line.
C13_SingleInsertion ==
    \A v \in 1 .. (Len(versions) - 1) :
        LET old == Records(versions[v])
            new == Records(versions[v + 1])
            f == FirstMatch(old, match_pattern)
        IN  IF f = 0 THEN new = old
            ELSE /\ Len(new) = Len(old) + 1
                 /\ SubSeq(new, 1, f) = SubSeq(old, 1, f)
                 /\ SubSeq(new, f + 2, Len(new)) = SubSeq(old, f + 1, Len(old))

\* C14: the line that follows the first matching line after an application
\* is that line's leading white space followed by new_line.
C14_LeadPreserved ==
    \A v \in 1 .. (Len(versions) - 1) :
        LET old == Records(versions[v])
            new == Records(versions[v + 1])
            f == FirstMatch(old, match_pattern)
        IN  f # 0 /\ f < Len(new) =>
                new[f + 1] = LeadingWhitespace(old[f]) \o new_line

\* C15: an application to a file none of whose lines matches match_pattern
\* reaches the rename and leaves the content of the file as it was.
C15_NoMatchIdentity ==
    \A v \in 1 .. (Len(versions) - 1) :
        FirstMatch(Records(versions[v]), match_pattern) = 0 =>
            versions[v + 1] = versions[v]

\* C16: the file is renamed over, and its content changes, only in the mv
\* step, which runs only after awk read every record and returned zero; when
\* the redirection or awk fails the script ends there and the file stays as
\* it was.
C16_RenameAfterFullPass ==
    [][/\ (target' # target \/ runs' # runs) =>
              /\ spc = "mv"
              /\ exit_status = "zero"
              /\ NR = Len(Records(target))
              /\ target' = tmp.bytes
       /\ exit_status' = "nonzero" => spc' = "failed" /\ target' = target
       /\ spc = "failed" => spc' = "failed" /\ target' = target]_vars

C16_Witness ==
    /\ spc = "failed"
    /\ exit_status = "nonzero"
    /\ NR >= 1
    /\ NR < Len(Records(target))
    /\ tmp.exists
    /\ tmp.bytes # <<>>
    /\ runs = 0
    /\ target = versions[1]

\* C17: once the shell has split the command, the tokens are the thirteen of
\* "awk -v pattern=P -v new_line=N PROGRAM file > tmp && mv tmp file" with P
\* equal to match_pattern, N equal to new_line and file equal to filepath,
\* each inside one word, and no $ of the three texts is left unquoted.
C17_QuotingSafe ==
    spc \notin {"idle", "python", "shell"} =>
        /\ spc # "other"
        /\ words = <<Word(<<"a", "w", "k">>, 0),
                     Word(<<"-", "v">>, 0),
                     Word(<<"p", "a", "t", "t", "e", "r", "n", "=">> \o match_pattern, 0),
                     Word(<<"-", "v">>, 0),
                     Word(<<"n", "e", "w", "_", "l", "i", "n", "e", "=">> \o new_line, 0),
                     Word(AWK_PROGRAM, 0),
                     Word(filepath, 0),
                     Operator(<<">">>),
                     Word(TMP_PATH, 2),
                     Operator(<<"&", "&">>),
                     Word(<<"m", "v">>, 0),
                     Word(TMP_PATH, 2),
                     Word(filepath, 0)>>

C17_Witness ==
    /\ spc = "done"
    /\ match_pattern = <<"'", ";">>
    /\ filepath = <<"a", "'", "b">>
    /\ words[3].text = <<"p", "a", "t", "t", "e", "r", "n", "=", "'", ";">>
    /\ words[7].text = <<"a", "'", "b">>

\* C18: after two applications to a file with a matching line the file has
\* its lines as they were and two more, both right after the first matching
\* line and equal to each other, and the second application changed the file.
C18_TwoApplications ==
    LET old == Records(versions[1])
        f == FirstMatch(old, match_pattern)
    IN  Len(versions) >= 3 /\ f # 0 =>
            LET new == Records(versions[3])
            IN  /\ versions[3] # versions[2]
                /\ Len(new) = Len(old) + 2
                /\ SubSeq(new, 1, f) = SubSeq(old, 1, f)
                /\ new[f + 1] = new[f + 2]
                /\ SubSeq(new, f + 3, Len(new)) = SubSeq(old, f + 1, Len(old))

\* position of task i in the sequence seq of task indices
PositionIn(seq, i) == CHOOSE k \in 1 .. Len(seq) : seq[k] = i

\* C19: with max_workers = 1 at most one dispatch is in flight, a dispatch has
\* begun only when every dispatch before it in the list has returned, the
\* dispatches complete in list order, and what run_parallel returns holds for
\* each instance the result a call of send_ssm_command in a loop over the
\* list gives it.
C19_SequentialAtOne ==
    concurrency = 1 =>
        /\ Cardinality(Running) <= 1
        /\ \A i \in Tasks :
              pc[i] \notin {"unsubmitted", "queued"} =>
                  \A j \in 1 .. (i - 1) : pc[j] = "done"
        /\ finished = [k \in 1 .. Len(finished) |-> k]
        /\ \A i \in Tasks : pc[i] = "done" => res[i] = OwnOutcome(i)
        /\ mpc = "returned" =>
              /\ Len(results) = Len(instance_ids)
              /\ \A i \in Tasks :
                    \E k \in 1 .. Len(results) :
                        collected[k] = i /\ results[k] = OwnOutcome(i)

C19_Witness ==
    /\ concurrency = 1
    /\ instance_ids = <<"i-1", "i-2">>
    /\ mpc = "returned"
    /\ finished = <<1, 2>>
    /\ \E k \in 1 .. 2 : results[k].instance = "i-1" /\ results[k].status = "TimedOut"
    /\ \E k \in 1 .. 2 : results[k].instance = "i-2" /\ results[k].status = "Success"

\* C20 as stated: results are appended in the order the dispatches complete.
C20_CompletionOrder ==
    \A k \in 1 .. Len(collected) : collected[k] = finished[k]

\* C20 amended: results are appended in the order as_completed yields: the
\* dispatches already complete when the loop begins come first, in no
\* particular order, then the others in the order they complete; the log
\* entries of a result are emitted in the step that appends it, so at every
\* moment, and at return, the log entries are those of the results appended
\* so far, in the order of the results list.
C20_YieldOrder ==
    /\ \A a, b \in 1 .. Len(collected) :
          a < b =>
              /\ collected[b] \in snapshot => collected[a] \in snapshot
              /\ collected[a] \notin snapshot =>
                    PositionIn(finished, collected[a]) < PositionIn(finished, collected[b])
    /\ Len(results) = Len(collected)
    /\ \A k \in 1 .. Len(results) : results[k] = res[collected[k]]
    /\ logs = Flatten([k \in 1 .. Len(results) |-> LogEntries(results[k])])

C20_Witness ==
    /\ mpc = "returned"
    /\ instance_ids = <<"i-1", "i-2">>
    /\ snapshot = {}
    /\ finished = <<2, 1>>
    /\ collected = <<2, 1>>
    /\ InstanceOf(results) = <<"i-2", "i-1">>
    /\ logs[1].instance = "i-2"
    /\ logs[Len(logs)].instance = "i-1"

\* the log entry e names the instance and the status of the result r
NamesResult(e, r) ==
    /\ e.instance = r.instance
    /\ \/ e.tag = "SUCCESS" /\ r.status = "Success"
       \/ e.tag = "STATUS" /\ e.status = r.status

\* what the operator needs to diagnose the failed result r
Diagnosis(r) == IF r.status = "FailedToSend" THEN r.error ELSE r.stderr

\* C21: for every result collected there is a log entry with its instance
\* identifier and its status; when the status is not Success the entry
\* carries the captured stderr, or the send-time error string when the
\* status is FailedToSend.
C21_LoggedWithDiagnosis ==
    \A k \in 1 .. Len(results) :
        \E n \in 1 .. Len(logs) :
            /\ NamesResult(logs[n], results[k])
            /\ results[k].status # "Success" => logs[n].body = Diagnosis(results[k])

\* main is past "determine instances" and on the batch path
InBatchFlow ==
    /\ cpc \notin {"idle", "instances"}
    /\ args.batch \/ args.action # ""

\* the run is over with an error exit and nothing was handed to an instance
ErrorExit ==
    /\ cpc = "exit"
    /\ exit_code = 1
    /\ commands = <<>>

\* one of --action, --cmd (custom), --file, --match, --newline (append) is absent
AnyParameterMissing ==
    \/ args.action = ""
    \/ args.action = "custom" /\ ~args.cmd
    \/ args.action = "append" /\ (~args.file \/ ~args.match \/ ~args.newline)

\* the same, with --file and --match counted as absent only together
ParameterMissing ==
    \/ args.action = ""
    \/ args.action = "custom" /\ ~args.cmd
    \/ args.action = "append" /\ ((~args.file /\ ~args.match) \/ ~args.newline)

\* C22 as stated: in the batch flow, when no instance is resolved or any one
\* of --action, --cmd for custom, --file, --match, --newline for append is
\* missing, no command is ever submitted and the run ends with an error exit.
C22_AnyMissingIsFatal ==
    [](InBatchFlow /\ (main_instance_ids = <<>> \/ AnyParameterMissing)
         => commands = <<>> /\ <>ErrorExit)

\* what the code does ensure: the same with --file and --match fatal only
\* when both are missing
BothMissingIsFatal ==
    [](InBatchFlow /\ (main_instance_ids = <<>> \/ ParameterMissing)
         => commands = <<>> /\ <>ErrorExit)

\* C23: results changes only in a step of the calling thread inside its
\* as_completed loop, in which no worker task moves; the step appends the
\* result of one finished task not collected before and leaves every earlier
\* entry in place; so there is always one entry per collected task.
C23_SingleWriter ==
    [][(results' # results \/ collected' # collected) =>
          /\ mpc = "collect" /\ mpc' = "collect"
          /\ taskVars' = taskVars
          /\ \E i \in Tasks \ Collected :
                /\ pc[i] = "done"
                /\ collected' = Append(collected, i)
                /\ results' = Append(results, res[i])
          /\ \A k \in 1 .. Len(results) : results'[k] = results[k]
          /\ Len(results') = Len(collected')]_vars

\* two tasks finished after the loop was entered, with different statuses;
\* the result of the second was appended behind that of the first
C23_Witness ==
    /\ Len(results) = 2
    /\ Len(finished) = 2
    /\ results[1] = res[finished[1]]
    /\ results[2] = res[finished[2]]
    /\ finished[1] \notin snapshot
    /\ results[1].status # results[2].status

\* task i came to the end of its poll loop without a terminal status
BudgetExhausted(i) ==
    /\ pc[i] = "done"
    /\ sendReply[i] = "CommandId"
    /\ ~SawTerminal(i)

\* C24: the result of every finished send_ssm_command call has one of the
\* statuses Success, Failed, TimedOut, Cancelled, FailedToSend, never a
\* non-terminal one; it has an error field exactly when the status is
\* FailedToSend; its stdout and stderr are empty when the status is
\* FailedToSend and when it is the TimedOut of an exhausted poll budget.
C24_ResultShape ==
    \A i \in Tasks :
        pc[i] = "done" =>
            /\ res[i].status \in {"Success", "Failed", "TimedOut", "Cancelled", "FailedToSend"}
            /\ res[i].status \notin PendingStatuses
            /\ "error" \in DOMAIN res[i] <=> res[i].status = "FailedToSend"
            /\ res[i].status = "FailedToSend" => res[i].stdout = "" /\ res[i].stderr = ""
            /\ BudgetExhausted(i) =>
                  res[i].status = "TimedOut" /\ res[i].stdout = "" /\ res[i].stderr = ""

\* one call failed to send; another saw only InProgress until its budget
\* was used up
C24_Witness ==
    /\ Len(instance_ids) = 2
    /\ pc[1] = "done"
    /\ res[1].status = "FailedToSend"
    /\ res[1].error = "AccessDenied"
    /\ BudgetExhausted(2)
    /\ inv[2].status = "InProgress"
    /\ res[2].status = "TimedOut"

====
